---- MODULE Spec2Model ----
(***************************************************************************)
(* Model of brot/smartmeter-netz-noe.                                      *)
(*                                                                         *)
(*   Fetcher  (src/src/smartmeter.py): one process run logs in, extends    *)
(*            the session, enumerates the metering points and, per point,  *)
(*            writes one JSON file per day that has no file yet.           *)
(*   Importer (src/src/import_sqlite.py): one process run walks the meter  *)
(*            directories and merges every day file into the per-meter     *)
(*            SQLite store.                                                *)
(*                                                                         *)
(* Spec       is the fetcher, SpecCrash the fetcher with process kills,    *)
(* SpecImport the importer.  The two programs                              *)
(* share nothing but the disk and never run together, so each              *)
(* specification leaves the other program's variables alone.               *)
(***************************************************************************)
EXTENDS Integers, Sequences, FiniteSets, TLC

VARIABLES
    \* ---- fetcher: environment ----
    today,          \* datetime.date.today(), a day number
    start_date,     \* _settings.measure_start_date
    portal,         \* the metering points the portal lists for the login
    \* ---- fetcher: disk ----
    dirs,           \* directories that exist under storage_path
    files,          \* files[dir] : day |-> content of <day>.json, for existing files
    \* ---- fetcher: the running process ----
    pc,             \* position of the run
    status,         \* "running", "exit0", or what ended the run: "SystemExit"
                    \* (sys.exit(1)) or the name of the uncaught exception
    infos,          \* main: the list get_consumption_info() returned
    mi,             \* main: index of the current entry of infos
    days,           \* download_consumptions_for_meter: the list of days
    di,             \* download_consumptions_for_meter: index of the current day
    resp,           \* get_consumption_records_for_day: consumption_per_day
    rec,            \* download_consumptions_for_meter: consumption_records
    \* ---- fetcher: observation ----
    sent,           \* the request the last step issued (NoReq when it issued none)
    code,           \* the status code of its response (0 when it issued none)
    issued,         \* the kinds of request the current run has issued so far
    end_at,         \* where the run ended ("" while it runs)
    considered,     \* the days the current download call has iterated over
    call_today,     \* today as read on entry of the current download call
    empty_days,     \* the days for which the current download call was
                    \* served a record with empty meteredValues
    prev,           \* the download call that returned last in the current run:
                    \* its directory, its today and its empty days
    resumed,        \* a run is in progress, and the run before it ended by
                    \* a fatal error
    \* ---- importer: disk ----
    dayfiles,       \* dayfiles[meter] : file name |-> parsed JSON of the day file
    store,          \* store[meter] : the durable content of consumption_data.db
    \* ---- importer: the running process ----
    ipc,            \* position of the run
    istatus,        \* "running", "exit0", "killed" or the uncaught exception
    iend_at,        \* where the run ended ("" while it runs)
    root_todo,      \* entries of storage_path that iterdir() has yet to yield
    acct_todo,      \* entries of the account directory yet to be yielded
    energy_meter,   \* name of the current energy_meter_path
    con,            \* the rows as the open connection sees them
    file_list,      \* sorted(energy_meter_path.glob("*.json"))
    fi,             \* index of the current day_path in file_list
    data,           \* the zipped rows of the current day file
    ri,             \* executemany: index of the next row of data
    \* ---- importer: observation ----
    first_result,   \* the stores as the first complete run over the present
                    \* day files left them
    base            \* the stores as they were when the present day files were
                    \* put in place, and how the last killed run since was cut

fvars == <<today, start_date, portal, dirs, files, pc, status, infos, mi, days,
           di, resp, rec, sent, code, issued, end_at, considered, call_today,
           empty_days, prev, resumed>>

ivars == <<dayfiles, store, ipc, istatus, iend_at, root_todo, acct_todo,
           energy_meter,
           con, file_list, fi, data, ri, first_result, base>>

vars == <<fvars, ivars>>

----------------------------------------------------------------------------
(* Bounds *)

\* Day numbers are 0..MaxDay; today and start_date are drawn from them.
MaxDay == 5

\* At most this many (metering point, day) pairs can ever be in range.
MaxCells == 5

Day == 0..MaxDay

----------------------------------------------------------------------------
(* The remote portal *)

\* HTTP status codes the portal answers with: success, a client error, a
\* server error and the maintenance-mode status.
StatusCodes == {200, 401, 503, 999}

P1 == [account_id |-> "a1", metering_point_id |-> "m1"]
P2 == [account_id |-> "a1", metering_point_id |-> "m2"]

\* What the portal lists: nothing, one point, two points, one point twice.
Topologies == {<<>>, <<P1>>, <<P1, P2>>, <<P1, P1>>}

account_dir(info) == <<info.account_id>>
energy_meter_dir(info) == <<info.account_id, info.metering_point_id>>

MeterDirs == {energy_meter_dir(P1), energy_meter_dir(P2)}

\* The mean profile the MeanProfileDay endpoint returns.
MeanProfile == <<9>>

\* meteredValues of a day object: not yet available, or one of two editions
\* of the day's data (the remote may change its data between requests).
MeteredValues == {<< >>, <<1>>, <<2>>}

\* The JSON objects the ConsumptionRecord/Day endpoint can carry: a day object
\* with meteredValues, one that already has a meanProfile key, and one that
\* lacks meteredValues.
DayObjects ==
    {[meteredValues |-> v] : v \in MeteredValues}
    \cup {[meteredValues |-> <<1>>, meanProfile |-> <<0>>]}
    \cup {[estimatedValues |-> <<1>>]}

\* A response body: a JSON object, a JSON array of objects, or no JSON at all.
DayBodies ==
    {[kind |-> "object", items |-> <<o>>] : o \in DayObjects}
    \cup {[kind |-> "list", items |-> << >>]}
    \cup {[kind |-> "list", items |-> <<o>>] : o \in DayObjects}
    \cup {[kind |-> "list", items |-> <<[meteredValues |-> <<1>>], [meteredValues |-> <<2>>]>>]}
    \cup {[kind |-> "notjson", items |-> << >>]}

NoBody == [kind |-> "none", items |-> << >>]
NoRec == [none |-> TRUE]

NoReq == [kind |-> "none"]
Req(kind) == [kind |-> kind]
DayReq(kind, meter, day) == [kind |-> kind, meter |-> meter, day |-> day]

----------------------------------------------------------------------------
(* Pure helpers of the fetcher *)

\* Faulty variants of the helpers below, used to show that the properties
\* depend on them.
is_maintenance_never(status_code) == FALSE
day_list_through_today(start, now) == [i \in 1..(now - start + 1) |-> start + i - 1]
file_exists_never(dir, day) == FALSE
more_than_one_never(body) == FALSE
metered_missing_never(record) == FALSE

\* requests.Response.raise_for_status: raises for 4xx and 5xx only.
raise_for_status(status_code) ==
    \/ (400 <= status_code /\ status_code < 500)
    \/ (500 <= status_code /\ status_code < 600)

\* _login: the maintenance-mode test after raise_for_status.
is_maintenance(status_code) == status_code = 999

\* range(n): 0 .. n-1, empty for n <= 0.
range(n) == [i \in 1..n |-> i - 1]

\* [start_date + timedelta(days=i) for i in range((today - start_date).days)]
day_list(start, now) ==
    LET number_since_measure_start == now - start
        r == range(number_since_measure_start)
    IN  [i \in 1..Len(r) |-> start + r[i]]

\* json_file.exists()
file_exists(dir, day) == day \in DOMAIN files[dir]

\* isinstance(consumption_per_day, list) and len(consumption_per_day) > 1
more_than_one(body) == body.kind = "list" /\ Len(body.items) > 1

\* consumption_per_day[0]: IndexError on an empty list, KeyError on a dict
\* (a JSON object has string keys only).
first_entry(body) ==
    IF body.kind = "list" /\ Len(body.items) >= 1
    THEN [ok |-> TRUE, val |-> body.items[1]]
    ELSE [ok |-> FALSE,
          err |-> IF body.kind = "list" THEN "IndexError" ELSE "KeyError"]

\* dict | dict: the right operand wins on a key collision.
dict_union(a, b) ==
    [k \in DOMAIN a \cup DOMAIN b |-> IF k \in DOMAIN b THEN b[k] ELSE a[k]]

\* not consumption_records["meteredValues"], once the key is known to exist
metered_missing(record) == record["meteredValues"] = << >>

----------------------------------------------------------------------------
(* The fetcher run *)

disk == <<dirs, files>>
env == <<today, start_date, portal>>
locals == <<infos, mi, days, di, resp, rec, considered, call_today>>
memory == <<empty_days, prev>>

NoPrev == [dir |-> << >>, today |-> 0, empty_days |-> {}]

\* The process ends: how is "exit0" (main returned), "SystemExit" (sys.exit(1))
\* or the name of an exception nobody catches (traceback, exit code 1).
Terminate(how) ==
    /\ pc' = "end"
    /\ status' = how
    /\ end_at' = pc
    /\ resumed' = FALSE

Issue(request, response_code) ==
    /\ sent' = request
    /\ code' = response_code
    /\ issued' = issued \cup {request.kind}

Silent ==
    /\ sent' = NoReq
    /\ code' = 0
    /\ UNCHANGED issued

cur_info == infos[mi]
cur_dir == energy_meter_dir(cur_info)
cur_meter == cur_info.metering_point_id
cur_day == days[di]

\* A Day response body that carries a day record with empty meteredValues.
is_empty_day(body) ==
    /\ first_entry(body).ok
    /\ "meteredValues" \in DOMAIN first_entry(body).val
    /\ metered_missing(first_entry(body).val)

\* SmartMeter._login
login ==
    /\ UNCHANGED ivars
    /\ UNCHANGED memory
    /\ pc = "login"
    /\ \E c \in StatusCodes :
         /\ Issue(Req("login"), c)
         /\ IF raise_for_status(c) THEN Terminate("HTTPError")
            ELSE IF is_maintenance(c) THEN Terminate("SystemExit")
            ELSE pc' = "extend" /\ UNCHANGED <<status, end_at, resumed>>
    /\ UNCHANGED <<env, disk, locals>>

\* SmartMeter._extend_session_lifetime
extend_session_lifetime ==
    /\ UNCHANGED ivars
    /\ UNCHANGED memory
    /\ pc = "extend"
    /\ \E c \in StatusCodes :
         /\ Issue(Req("extend"), c)
         /\ IF raise_for_status(c) THEN Terminate("HTTPError")
            ELSE pc' = "info" /\ UNCHANGED <<status, end_at, resumed>>
    /\ UNCHANGED <<env, disk, locals>>

\* SmartMeter.get_consumption_info: the body is the list of metering points,
\* or something response.json() rejects.
get_consumption_info ==
    /\ UNCHANGED ivars
    /\ UNCHANGED memory
    /\ pc = "info"
    /\ \E c \in StatusCodes, wellformed \in BOOLEAN :
         /\ Issue(Req("info"), c)
         /\ IF raise_for_status(c)
            THEN Terminate("HTTPError") /\ UNCHANGED <<infos, mi>>
            ELSE IF ~wellformed
            THEN Terminate("JSONDecodeError") /\ UNCHANGED <<infos, mi>>
            ELSE /\ pc' = "main"
                 /\ infos' = portal
                 /\ mi' = 1
                 /\ UNCHANGED <<status, end_at, resumed>>
    /\ UNCHANGED <<env, disk, days, di, resp, rec, considered, call_today>>

\* main: the for loop is exhausted and the process ends normally.
main_return ==
    /\ UNCHANGED ivars
    /\ UNCHANGED memory
    /\ pc = "main"
    /\ mi > Len(infos)
    /\ Terminate("exit0")
    /\ Silent
    /\ UNCHANGED <<env, disk, locals>>

\* main: one iteration up to the entry of download_consumptions_for_meter,
\* which computes the list of days from today's date.
main_iteration ==
    /\ UNCHANGED ivars
    /\ pc = "main"
    /\ mi <= Len(infos)
    /\ dirs' = dirs \cup {account_dir(cur_info), cur_dir}
    /\ days' = day_list(start_date, today)
    /\ call_today' = today
    /\ di' = 1
    /\ considered' = << >>
    /\ empty_days' = {}
    /\ UNCHANGED <<prev, resumed>>
    /\ pc' = "day"
    /\ Silent
    /\ UNCHANGED <<env, files, status, end_at, infos, mi, resp, rec>>

\* download_consumptions_for_meter: the for loop is exhausted.
download_return ==
    /\ UNCHANGED ivars
    /\ pc = "day"
    /\ di > Len(days)
    /\ mi' = mi + 1
    /\ pc' = "main"
    /\ prev' = [dir |-> cur_dir, today |-> call_today, empty_days |-> empty_days]
    /\ Silent
    /\ UNCHANGED <<empty_days, resumed>>
    /\ UNCHANGED <<env, disk, status, end_at, infos, days, di, resp, rec,
                   considered, call_today>>

\* download_consumptions_for_meter: the day's file exists, continue.
day_exists ==
    /\ UNCHANGED ivars
    /\ UNCHANGED memory
    /\ pc = "day"
    /\ di <= Len(days)
    /\ file_exists(cur_dir, cur_day)
    /\ considered' = Append(considered, cur_day)
    /\ di' = di + 1
    /\ Silent
    /\ UNCHANGED <<env, disk, pc, status, end_at, infos, mi, days, resp, rec,
                   call_today, resumed>>

\* get_consumption_records_for_day up to the mean-profile call: the Day
\* request, raise_for_status, json() and the more-than-one test.
day_request ==
    /\ UNCHANGED ivars
    /\ pc = "day"
    /\ di <= Len(days)
    /\ ~file_exists(cur_dir, cur_day)
    /\ considered' = Append(considered, cur_day)
    /\ \E c \in StatusCodes, body \in DayBodies :
         /\ Issue(DayReq("day", cur_meter, cur_day), c)
         /\ IF raise_for_status(c)
            THEN Terminate("HTTPError") /\ UNCHANGED <<resp, empty_days>>
            ELSE IF body.kind = "notjson"
            THEN Terminate("JSONDecodeError") /\ UNCHANGED <<resp, empty_days>>
            ELSE /\ resp' = body
                 /\ empty_days' = IF is_empty_day(body)
                                  THEN empty_days \cup {cur_day}
                                  ELSE empty_days
                 /\ IF more_than_one(body)
                    THEN Terminate("SystemExit")
                    ELSE pc' = "mean" /\ UNCHANGED <<status, end_at, resumed>>
    /\ UNCHANGED <<env, disk, infos, mi, days, di, rec, call_today, prev>>

\* _get_mean_profile_for_day, then consumption_per_day[0] | {"meanProfile": ...}
mean_request ==
    /\ UNCHANGED ivars
    /\ UNCHANGED memory
    /\ pc = "mean"
    /\ \E c \in StatusCodes, isjson \in BOOLEAN :
         /\ Issue(DayReq("mean", cur_meter, cur_day), c)
         /\ IF raise_for_status(c)
            THEN Terminate("HTTPError") /\ UNCHANGED rec
            ELSE IF ~isjson
            THEN Terminate("JSONDecodeError") /\ UNCHANGED rec
            ELSE IF ~first_entry(resp).ok
            THEN Terminate(first_entry(resp).err) /\ UNCHANGED rec
            ELSE /\ pc' = "store"
                 /\ rec' = dict_union(first_entry(resp).val,
                                      [meanProfile |-> MeanProfile])
                 /\ UNCHANGED <<status, end_at, resumed>>
    /\ UNCHANGED <<env, disk, infos, mi, days, di, resp, considered, call_today>>

\* download_consumptions_for_meter: the meteredValues test and write_text.
store_day ==
    /\ UNCHANGED ivars
    /\ UNCHANGED memory
    /\ pc = "store"
    /\ Silent
    /\ IF "meteredValues" \notin DOMAIN rec
       THEN Terminate("KeyError") /\ UNCHANGED <<files, di>>
       ELSE /\ pc' = "day"
            /\ di' = di + 1
            /\ UNCHANGED <<status, end_at, resumed>>
            /\ IF metered_missing(rec)
               THEN UNCHANGED files
               ELSE files' = [files EXCEPT ![cur_dir] =
                                [d \in DOMAIN @ \cup {cur_day} |->
                                   IF d = cur_day THEN rec ELSE @[d]]]
    /\ UNCHANGED <<env, dirs, infos, mi, days, resp, rec, considered, call_today>>

\* What a day file holds when the process dies inside write_text: open() has
\* created the file, and none or only part of the text has reached it.
Truncated == [truncated |-> TRUE]

\* download_consumptions_for_meter: the process is killed (or the machine
\* stops) while write_text is writing the day's file.
write_text_killed ==
    /\ UNCHANGED ivars
    /\ UNCHANGED memory
    /\ pc = "store"
    /\ "meteredValues" \in DOMAIN rec
    /\ ~metered_missing(rec)
    /\ files' = [files EXCEPT ![cur_dir] =
                   [d \in DOMAIN @ \cup {cur_day} |->
                      IF d = cur_day THEN Truncated ELSE @[d]]]
    /\ Terminate("killed")
    /\ Silent
    /\ UNCHANGED <<env, dirs, locals>>

\* The operator (or cron) starts the program again after a run has ended.
start_run ==
    /\ UNCHANGED ivars
    /\ pc = "end"
    /\ pc' = "login"
    /\ status' = "running"
    /\ end_at' = ""
    /\ issued' = {}
    /\ sent' = NoReq
    /\ code' = 0
    /\ infos' = << >>
    /\ mi' = 1
    /\ days' = << >>
    /\ di' = 1
    /\ resp' = NoBody
    /\ rec' = NoRec
    /\ considered' = << >>
    /\ call_today' = today
    /\ empty_days' = {}
    /\ prev' = NoPrev
    /\ resumed' = (status \in {"HTTPError", "SystemExit"})
    /\ UNCHANGED <<env, disk>>

\* Midnight passes.
tick ==
    /\ UNCHANGED ivars
    /\ UNCHANGED memory
    /\ today < MaxDay
    /\ today' = today + 1
    /\ Silent
    /\ UNCHANGED <<start_date, portal, disk, pc, status, end_at, locals, resumed>>

----------------------------------------------------------------------------
(* The importer: JSON values, day files and the store *)

\* JSON values as json.loads yields them: numbers, null, nested containers,
\* and strings holding a timestamp (date, separator character, quarter hour).
Num(n) == [type |-> "number", n |-> n]
Null == [type |-> "null"]
Nested == [type |-> "object"]
Str(date, sep, time) == [type |-> "string", date |-> date, sep |-> sep, time |-> time]

\* Faulty variants of the helpers below, used to show that the properties
\* depend on them.
insert_sql_plain(rows, row) == Append(rows, row)
insert_sql_update(rows, row) ==
    IF \E i \in 1..Len(rows) : rows[i].timestamp = row.timestamp
    THEN [i \in 1..Len(rows) |->
            IF rows[i].timestamp = row.timestamp THEN row ELSE rows[i]]
    ELSE Append(rows, row)
durable_in_transaction_autocommit(durable, seen) == seen

\* datetime.datetime.fromisoformat: any separator character is accepted; the
\* result is the point in time.  TypeError for a non-string, ValueError for a
\* string that is no timestamp (here: a time of day past 23:45).
fromisoformat(d) ==
    IF d.type # "string" THEN [ok |-> FALSE, err |-> "TypeError"]
    ELSE IF d.time \notin 0..95 THEN [ok |-> FALSE, err |-> "ValueError"]
    ELSE [ok |-> TRUE, val |-> [date |-> d.date, time |-> d.time]]

\* adapt_datetime_iso: val.isoformat(), always with the separator "T".
adapt_datetime_iso(val) == Str(val.date, "T", val.time)

\* What sqlite3 can bind as a parameter: numbers, None and text.
bindable(v) == v.type \in {"number", "null", "string"}

Keys ==
    <<"peakDemandTimes", "meteredValues", "estimatedValues",
      "meteredPeakDemands", "estimatedPeakDemands", "meanProfile">>

Min(S) == CHOOSE x \in S : \A y \in S : x <= y

\* A faulty variant of zip: meteredValues is read from the other end.
zip_metered_from_end(times, json_data) ==
    LET n == Min({Len(times)} \cup {Len(json_data[Keys[k]]) : k \in 2..6})
    IN  [i \in 1..n |->
           [timestamp |-> times[i],
            metered |-> json_data["meteredValues"][n + 1 - i],
            estimated |-> json_data["estimatedValues"][i],
            metered_peak |-> json_data["meteredPeakDemands"][i],
            estimated_peak |-> json_data["estimatedPeakDemands"][i],
            mean_profile |-> json_data["meanProfile"][i]]]

\* list(zip(...)) of import_data: stops at the shortest of the six sequences.
zip(times, json_data) ==
    LET n == Min({Len(times)} \cup {Len(json_data[Keys[k]]) : k \in 2..6})
    IN  [i \in 1..n |->
           [timestamp |-> times[i],
            metered |-> json_data["meteredValues"][i],
            estimated |-> json_data["estimatedValues"][i],
            metered_peak |-> json_data["meteredPeakDemands"][i],
            estimated_peak |-> json_data["estimatedPeakDemands"][i],
            mean_profile |-> json_data["meanProfile"][i]]]

\* import_data, lines 79-91: the list comprehension over peakDemandTimes is
\* evaluated first, then the five other lookups, then zip.
parse_day_file(json_data) ==
    IF "peakDemandTimes" \notin DOMAIN json_data
    THEN [ok |-> FALSE, err |-> "KeyError"]
    ELSE LET strings == json_data["peakDemandTimes"]
             bad == {i \in 1..Len(strings) : ~fromisoformat(strings[i]).ok}
         IN  IF bad # {}
             THEN [ok |-> FALSE, err |-> fromisoformat(strings[Min(bad)]).err]
             ELSE IF \E k \in 2..6 : Keys[k] \notin DOMAIN json_data
             THEN [ok |-> FALSE, err |-> "KeyError"]
             ELSE [ok |-> TRUE,
                   val |-> zip([i \in 1..Len(strings) |-> fromisoformat(strings[i]).val],
                               json_data)]

\* The parameters of one INSERT as sqlite3 binds them: the datetime goes
\* through the registered adapter.
bound(params) == [params EXCEPT !.timestamp = adapt_datetime_iso(@)]

all_bindable(params) ==
    /\ bindable(params.metered)
    /\ bindable(params.estimated)
    /\ bindable(params.metered_peak)
    /\ bindable(params.estimated_peak)
    /\ bindable(params.mean_profile)

\* INSERT_SQL on a table with the unique index: ON CONFLICT(timestamp) DO NOTHING.
insert_sql(rows, row) ==
    IF \E i \in 1..Len(rows) : rows[i].timestamp = row.timestamp
    THEN rows
    ELSE Append(rows, row)

\* What of the connection's view is durable while the transaction that
\* `with con:` commits is still open: nothing beyond the last commit.
durable_in_transaction(durable, seen) == durable

RECURSIVE sorted(_)
\* sorted(...) over the file names (numbered in their sort order).
sorted(S) == IF S = {} THEN << >> ELSE <<Min(S)>> \o sorted(S \ {Min(S)})

----------------------------------------------------------------------------
(* The importer: the disk it walks *)

IGNORED_PATH == {".DS_Store"}

\* storage_path holds one account directory and a stray file.
RootEntries ==
    {[name |-> "a1", is_dir |-> TRUE], [name |-> "README", is_dir |-> FALSE]}

\* The account directory holds one metering-point directory and .DS_Store.
AccountEntries ==
    {[name |-> "m1", is_dir |-> TRUE], [name |-> ".DS_Store", is_dir |-> FALSE]}

Meters == {"m1"}

\* File names are numbered in their sort order.  The day files a
\* metering-point directory may hold, <ISO-date>.json:
FileNames == {1, 2}

\* notes.json, a file of the metering-point directory that is no day file;
\* it sorts after every ISO date.
NotesJson == 3

\* What else the metering-point directory holds: the store file, a
\* housekeeping file and a sub-directory.
OtherEntries ==
    {[name |-> 4, suffix |-> "db", is_dir |-> FALSE],
     [name |-> 5, suffix |-> "", is_dir |-> FALSE],
     [name |-> 6, suffix |-> "", is_dir |-> TRUE]}

T1 == Str(1, "T", 0)
T2 == Str(1, "T", 1)
T2sp == Str(1, " ", 1)
T3 == Str(1, "T", 2)
Tbad == Str(1, "T", 96)

DayRecord(times, mv, ev, mp, ep, mean) ==
    [peakDemandTimes |-> times, meteredValues |-> mv, estimatedValues |-> ev,
     meteredPeakDemands |-> mp, estimatedPeakDemands |-> ep, meanProfile |-> mean]

N2(a, b) == <<Num(a), Num(b)>>

\* A well-formed day.
FileA == DayRecord(<<T1, T2>>, N2(11, 12), N2(21, 22), N2(31, 32), N2(41, 42), N2(51, 52))
\* A day that repeats T2 (written with a space) with other values.
FileB == DayRecord(<<T2sp, T3>>, N2(13, 14), N2(23, 24), N2(33, 34), N2(43, 44), N2(53, 54))
\* meteredValues is shorter than peakDemandTimes.
FileShort == DayRecord(<<T1, T2>>, <<Num(11)>>, N2(21, 22), N2(31, 32), N2(41, 42), N2(51, 52))
\* The meanProfile key is missing.
FileNoKey ==
    [peakDemandTimes |-> <<T1, T2>>, meteredValues |-> N2(11, 12),
     estimatedValues |-> N2(21, 22), meteredPeakDemands |-> N2(31, 32),
     estimatedPeakDemands |-> N2(41, 42)]
\* The same timestamp twice within one day, with a null.
FileTwice == DayRecord(<<T3, T3>>, <<Num(15), Null>>, N2(25, 26), N2(35, 36), N2(45, 46), N2(55, 56))
\* The second row carries a value sqlite3 cannot bind.
FileNested == DayRecord(<<T3, T1>>, N2(17, 18), N2(27, 28), N2(37, 38), N2(47, 48), <<Num(57), Nested>>)
\* A string that is no timestamp.
FileBadTime == DayRecord(<<T1, Tbad>>, N2(11, 12), N2(21, 22), N2(31, 32), N2(41, 42), N2(51, 52))

DayFileContents ==
    {FileA, FileB, FileShort, FileNoKey, FileTwice, FileNested, FileBadTime}

\* The content of notes.json: a JSON object that is no day record.
NotADay == [comment |-> <<Null>>]

\* The metering-point directories the importer may find: any day files,
\* with or without notes.json.
MeterDirContents ==
    LET day_files == UNION {[names -> DayFileContents] : names \in SUBSET FileNames}
    IN  day_files \cup
        {[n \in DOMAIN f \cup {NotesJson} |-> IF n = NotesJson THEN NotADay ELSE f[n]] :
           f \in day_files}

NoStore == [table |-> FALSE, index |-> FALSE, rows |-> << >>]
NoBase == [rows |-> [m \in Meters |-> << >>], interrupted |-> ""]
NoResult == [set |-> FALSE, again |-> FALSE, rows |-> [m \in Meters |-> << >>]]

----------------------------------------------------------------------------
(* The importer run *)

idisk == <<dayfiles, store>>
ilocals == <<root_todo, acct_todo, energy_meter, con, file_list, fi, data, ri>>

ITerminate(how) ==
    /\ ipc' = "end"
    /\ istatus' = how
    /\ iend_at' = ipc

IRunning == UNCHANGED <<istatus, iend_at>>

cur_file == dayfiles[energy_meter][file_list[fi]]

\* energy_meter_path.iterdir(): the files of dayfiles, all named *.json, and
\* the other entries.
iterdir(m) ==
    {[name |-> n, suffix |-> "json", is_dir |-> FALSE] : n \in DOMAIN dayfiles[m]}
    \cup OtherEntries

\* energy_meter_path.glob("*.json"): the names of the entries that end in
\* .json, whatever precedes the suffix.
glob_json(entries) == {e.name : e \in {x \in entries : x.suffix = "json"}}

\* import_data: the outer loop takes the next entry of storage_path.
import_root_next ==
    /\ UNCHANGED fvars
    /\ ipc = "root"
    /\ \E e \in root_todo :
         /\ root_todo' = root_todo \ {e}
         /\ IF ~e.is_dir
            THEN UNCHANGED <<ipc, acct_todo>>
            ELSE ipc' = "account" /\ acct_todo' = AccountEntries
    /\ IRunning
    /\ UNCHANGED <<idisk, energy_meter, con, file_list, fi, data, ri, first_result, base>>

\* import_data: the outer loop is exhausted, the process ends normally.
import_return ==
    /\ UNCHANGED fvars
    /\ ipc = "root"
    /\ root_todo = {}
    /\ ITerminate("exit0")
    /\ first_result' = IF first_result.set
                       THEN [first_result EXCEPT !.again = TRUE]
                       ELSE [set |-> TRUE, again |-> FALSE,
                             rows |-> [m \in Meters |-> store[m].rows]]
    /\ UNCHANGED <<idisk, ilocals, base>>

\* import_data: the inner loop takes the next entry of the account directory,
\* connects to its store and probes the table (_check_database, line 53).
import_meter_next ==
    /\ UNCHANGED fvars
    /\ ipc = "account"
    /\ \E e \in acct_todo :
         /\ acct_todo' = acct_todo \ {e}
         /\ IF e.name \in IGNORED_PATH
            THEN IRunning /\ UNCHANGED <<ipc, energy_meter, con, file_list, fi>>
            ELSE IF ~e.is_dir
            THEN ITerminate("OperationalError") /\ UNCHANGED <<energy_meter, con, file_list, fi>>
            ELSE /\ energy_meter' = e.name
                 /\ con' = store[e.name].rows
                 /\ IRunning
                 /\ IF store[e.name].table
                    THEN /\ ipc' = "files"
                         /\ file_list' = sorted(glob_json(iterdir(e.name)))
                         /\ fi' = 1
                    ELSE /\ ipc' = "create_table"
                         /\ UNCHANGED <<file_list, fi>>
    /\ UNCHANGED <<idisk, root_todo, data, ri, first_result, base>>

\* import_data: the inner loop is exhausted.
import_account_done ==
    /\ UNCHANGED fvars
    /\ ipc = "account"
    /\ acct_todo = {}
    /\ ipc' = "root"
    /\ IRunning
    /\ UNCHANGED <<idisk, ilocals, first_result, base>>

\* _check_database: CREATE_TABLE_SQL (DDL runs outside any transaction).
create_table ==
    /\ UNCHANGED fvars
    /\ ipc = "create_table"
    /\ store' = [store EXCEPT ![energy_meter].table = TRUE]
    /\ ipc' = "create_index"
    /\ IRunning
    /\ UNCHANGED <<dayfiles, ilocals, first_result, base>>

\* _check_database: CREATE_UNIQUE_INDEX_SQL, then the glob of import_data.
create_unique_index ==
    /\ UNCHANGED fvars
    /\ ipc = "create_index"
    /\ store' = [store EXCEPT ![energy_meter].index = TRUE]
    /\ ipc' = "files"
    /\ file_list' = sorted(glob_json(iterdir(energy_meter)))
    /\ fi' = 1
    /\ IRunning
    /\ UNCHANGED <<dayfiles, root_todo, acct_todo, energy_meter, con, data, ri, first_result, base>>

\* import_data, lines 76-94 up to the first row: read and zip the day file,
\* enter `with con:` and prepare INSERT_SQL, which needs the unique index
\* its ON CONFLICT clause names.
import_day_file ==
    /\ UNCHANGED fvars
    /\ ipc = "files"
    /\ fi <= Len(file_list)
    /\ LET parsed == parse_day_file(cur_file)
       IN  IF ~parsed.ok
           THEN ITerminate(parsed.err) /\ UNCHANGED <<data, ri>>
           ELSE /\ data' = parsed.val
                /\ ri' = 1
                /\ IF ~store[energy_meter].index
                   THEN ITerminate("OperationalError")
                   ELSE ipc' = "insert" /\ IRunning
    /\ UNCHANGED <<idisk, root_todo, acct_todo, energy_meter, con, file_list, fi, first_result, base>>

\* executemany: one INSERT.  A parameter that cannot be bound raises, and
\* `with con:` rolls the transaction back.
insert_row ==
    /\ UNCHANGED fvars
    /\ ipc = "insert"
    /\ ri <= Len(data)
    /\ IF ~all_bindable(data[ri])
       THEN /\ con' = store[energy_meter].rows
            /\ ITerminate("ProgrammingError")
            /\ UNCHANGED <<ri, store>>
       ELSE /\ con' = insert_sql(con, bound(data[ri]))
            /\ store' = [store EXCEPT ![energy_meter].rows = durable_in_transaction(@, con')]
            /\ ri' = ri + 1
            /\ UNCHANGED ipc
            /\ IRunning
    /\ UNCHANGED <<dayfiles, root_todo, acct_todo, energy_meter, file_list, fi, data, first_result, base>>

\* `with con:` exits normally: commit.
commit ==
    /\ UNCHANGED fvars
    /\ ipc = "insert"
    /\ ri > Len(data)
    /\ store' = [store EXCEPT ![energy_meter].rows = con]
    /\ fi' = fi + 1
    /\ ipc' = "files"
    /\ IRunning
    /\ UNCHANGED <<dayfiles, root_todo, acct_todo, energy_meter, con, file_list, data, ri, first_result, base>>

\* import_data: the loop over the day files is exhausted, con.close().
close ==
    /\ UNCHANGED fvars
    /\ ipc = "files"
    /\ fi > Len(file_list)
    /\ ipc' = "account"
    /\ IRunning
    /\ UNCHANGED <<idisk, ilocals, first_result, base>>

\* The process is killed (power loss, kill -9): what was not committed is
\* gone, what was committed stays.
crash ==
    /\ UNCHANGED fvars
    /\ istatus = "running"
    /\ ITerminate("killed")
    /\ con' = << >>
    /\ base' = [base EXCEPT !.interrupted =
                  IF ipc = "insert" /\ ri > 1 /\ ri <= Len(data) THEN "mid-file"
                  ELSE IF ipc = "files" /\ fi > 1 /\ fi <= Len(file_list)
                  THEN "between files"
                  ELSE @]
    /\ UNCHANGED <<idisk, root_todo, acct_todo, energy_meter, file_list, fi, data, ri, first_result>>

\* A process that has not run any statement of import_data yet.
FreshProcess ==
    /\ iend_at' = ""
    /\ root_todo' = RootEntries
    /\ acct_todo' = {}
    /\ energy_meter' = "m1"
    /\ con' = << >>
    /\ file_list' = << >>
    /\ fi' = 1
    /\ data' = << >>
    /\ ri' = 1

\* The importer is started again after a run has ended.
import_data ==
    /\ UNCHANGED fvars
    /\ ipc \in {"end", "idle"}
    /\ ipc' = "root"
    /\ istatus' = "running"
    /\ FreshProcess
    /\ UNCHANGED <<idisk, first_result, base>>

\* Between two runs the fetcher adds a day file, or the operator replaces or
\* removes one; nothing is left of the process that ran before.
change_day_file ==
    /\ UNCHANGED fvars
    /\ ipc \in {"end", "idle"}
    /\ ipc' = "idle"
    /\ istatus' = "none"
    /\ FreshProcess
    /\ \E m \in Meters, name \in FileNames :
         \/ /\ name \in DOMAIN dayfiles[m]
            /\ dayfiles' = [dayfiles EXCEPT ![m] =
                              [n \in DOMAIN @ \ {name} |-> @[n]]]
         \/ \E content \in DayFileContents :
              /\ (name \in DOMAIN dayfiles[m] => dayfiles[m][name] # content)
              /\ dayfiles' = [dayfiles EXCEPT ![m] =
                                [n \in DOMAIN @ \cup {name} |->
                                   IF n = name THEN content ELSE @[n]]]
    /\ first_result' = NoResult
    /\ base' = [rows |-> [m \in Meters |-> store[m].rows], interrupted |-> ""]
    /\ UNCHANGED store

----------------------------------------------------------------------------
(* Specifications *)

FetcherInit ==
    /\ today \in Day
    /\ start_date \in Day
    /\ portal \in Topologies
    /\ Len(portal) * (MaxDay - start_date) <= MaxCells
    /\ dirs = {}
    /\ files = [d \in MeterDirs |-> << >>]
    /\ empty_days = {}
    /\ prev = NoPrev
    /\ resumed = FALSE
    /\ pc = "login"
    /\ status = "running"
    /\ end_at = ""
    /\ issued = {}
    /\ sent = NoReq
    /\ code = 0
    /\ infos = << >>
    /\ mi = 1
    /\ days = << >>
    /\ di = 1
    /\ resp = NoBody
    /\ rec = NoRec
    /\ considered = << >>
    /\ call_today = today

\* The fetcher is not running (the importer's specification).
FetcherIdle ==
    /\ FetcherInit
    /\ today = 0
    /\ start_date = 0
    /\ portal = << >>

ImporterInit ==
    /\ dayfiles \in [Meters -> MeterDirContents]
    /\ store = [m \in Meters |-> NoStore]
    /\ ipc = "root"
    /\ istatus = "running"
    /\ iend_at = ""
    /\ root_todo = RootEntries
    /\ acct_todo = {}
    /\ energy_meter = "m1"
    /\ con = << >>
    /\ file_list = << >>
    /\ fi = 1
    /\ data = << >>
    /\ ri = 1
    /\ first_result = NoResult
    /\ base = NoBase

\* The importer is not running (the fetcher's specification).
ImporterIdle ==
    /\ ImporterInit
    /\ dayfiles = [m \in Meters |-> << >>]

Init == FetcherInit /\ ImporterIdle

Next ==
    \/ login
    \/ extend_session_lifetime
    \/ get_consumption_info
    \/ main_return
    \/ main_iteration
    \/ download_return
    \/ day_exists
    \/ day_request
    \/ mean_request
    \/ store_day
    \/ start_run
    \/ tick

Spec == Init /\ [][Next]_vars

\* The fetcher in a world where the process can also be killed while it
\* writes a day file.
NextCrash ==
    \/ Next
    \/ write_text_killed

SpecCrash == Init /\ [][NextCrash]_vars

InitImport == FetcherIdle /\ ImporterInit

NextImport ==
    \/ import_root_next
    \/ import_return
    \/ import_meter_next
    \/ import_account_done
    \/ create_table
    \/ create_unique_index
    \/ import_day_file
    \/ insert_row
    \/ commit
    \/ close
    \/ crash
    \/ import_data
    \/ change_day_file

SpecImport == InitImport /\ [][NextImport]_vars

----------------------------------------------------------------------------
(* Properties of the fetcher *)

\* A step of the program, as opposed to the passing of midnight and to the
\* process being killed.
ProgramStep == today' = today /\ status' # "killed"

DayRequestKinds == {"day", "mean"}

\* The last step asked the portal about this day of this meter directory.
Asked(request, dir, day) ==
    /\ request.kind \in DayRequestKinds
    /\ request.meter = dir[2]
    /\ request.day = day

\* A run that has ended does nothing more: the next thing that happens is a
\* new run, and the disk stays as it is.
EndedRunIsInert ==
    pc = "end" => /\ pc' \in {"end", "login"}
                  /\ disk' = disk
                  /\ sent' = NoReq

\* C3: once <day>.json exists in a meter directory, no step ever issues a Day
\* or MeanProfileDay request for that day of that meter, and the file keeps
\* its content, in this run and in every later one.
C3_DayFilesImmutable ==
    [][\A dir \in MeterDirs : \A day \in DOMAIN files[dir] :
          /\ day \in DOMAIN files'[dir]
          /\ files'[dir][day] = files[dir][day]
          /\ ~Asked(sent', dir, day)]_vars

\* C3 witness: a run has just passed a day whose file exists (written by an
\* earlier run, with the first edition of the data) without any Day request.
C3_Witness ==
    /\ pc = "day"
    /\ status = "running"
    /\ di > 1
    /\ days[di - 1] \in DOMAIN files[cur_dir]
    /\ files[cur_dir][days[di - 1]] # Truncated
    /\ files[cur_dir][days[di - 1]].meteredValues = <<1>>
    /\ "day" \notin issued

Ascending(seq) == \A i, j \in 1..Len(seq) : i < j => seq[i] < seq[j]

\* C4: inside download_consumptions_for_meter the days iterated are exactly
\* the days d with start_date <= d < today (today as read on entry), each once
\* and ascending; the days visited so far are a prefix of them; 5 days when
\* today = start_date + 5 and none when start_date >= today; no request is ever
\* for today or later, and no file exists outside start_date .. today - 1.
C4_RangeCorrect ==
    /\ pc \in {"day", "mean", "store"} =>
         /\ \A d \in -1..(MaxDay + 1) :
               (\E i \in 1..Len(days) : days[i] = d)
                  <=> (start_date <= d /\ d < call_today)
         /\ Ascending(days)
         /\ Len(considered) = (IF pc = "day" THEN di - 1 ELSE di)
         /\ considered = SubSeq(days, 1, Len(considered))
         /\ (call_today = start_date + 5 => Len(days) = 5)
         /\ (start_date >= call_today => days = << >>)
    /\ sent.kind \in DayRequestKinds =>
         (start_date <= sent.day /\ sent.day < today)
    /\ \A dir \in MeterDirs : \A day \in DOMAIN files[dir] :
         (start_date <= day /\ day < today)

\* C4 witness: a call entered with today = start_date + 5 has gone through
\* its whole list, five days.
C4_Witness ==
    /\ pc = "day"
    /\ call_today = start_date + 5
    /\ di > Len(days)
    /\ Len(considered) = 5

HasMetered(record) == "meteredValues" \in DOMAIN record

\* C5: a record with empty meteredValues writes no file and the run goes on
\* with the next day; a run that reaches a day without a file always issues
\* the Day request for it; and a record with non-empty meteredValues is
\* written to that day's file.
C5_EmptyDayIsRetried ==
    [][ProgramStep =>
         /\ (pc = "store" /\ HasMetered(rec) /\ rec.meteredValues = << >>) =>
               /\ files' = files
               /\ status' = "running"
               /\ pc' = "day"
               /\ di' = di + 1
         /\ (pc = "day" /\ di <= Len(days) /\ cur_day \notin DOMAIN files[cur_dir]) =>
               sent' = DayReq("day", cur_meter, cur_day)
         /\ (pc = "store" /\ HasMetered(rec) /\ rec.meteredValues # << >>) =>
               /\ cur_day \in DOMAIN files'[cur_dir]
               /\ files'[cur_dir][cur_day] = rec]_vars

\* C5 witness: the run has just skipped a day whose record was empty (no file
\* for the previous day, which was requested) and is still running.
C5_Witness ==
    /\ pc = "day"
    /\ status = "running"
    /\ di > 1
    /\ days[di - 1] \notin DOMAIN files[cur_dir]
    /\ rec.meteredValues = << >>
    /\ sent = NoReq
    /\ "mean" \in issued

more_than_one_list == resp.kind = "list" /\ Len(resp.items) > 1

SingleEntry(body) == body.kind \in {"object", "list"} /\ Len(body.items) = 1

\* C6: get_consumption_records_for_day returns the record for a single JSON
\* object as well as for a one-element list: with such a Day response the
\* call can only fail through the mean-profile request itself.
C6_AcceptsBothShapes ==
    (pc = "end" /\ end_at = "mean" /\ SingleEntry(resp))
        => status \in {"HTTPError", "JSONDecodeError"}

\* C7: a Day response that is a list of more than one element ends the run
\* with sys.exit(1) in the very step that received it: only the Day request
\* was sent, the disk is as it was, and the ended run does nothing more.
C7_ConflictAbort ==
    /\ [](more_than_one_list => /\ pc = "end"
                               /\ status = "SystemExit"
                               /\ end_at = "day"
                               /\ cur_day \notin DOMAIN files[cur_dir])
    /\ [][(more_than_one_list' /\ ~more_than_one_list) =>
             /\ sent' = DayReq("day", cur_meter, cur_day)
             /\ disk' = disk]_vars
    /\ [][EndedRunIsInert]_vars

\* C7 witness: the run ended on a two-element Day response after it had
\* written the file of an earlier day of the same meter.
C7_Witness ==
    /\ Len(resp.items) = 2
    /\ status = "SystemExit"
    /\ di > 1
    /\ days[1] \in DOMAIN files[cur_dir]
    /\ "mean" \in issued

\* C8: a login response with status 999 ends the run with sys.exit(1) in the
\* step that received it: the login is the only request of the run, the disk
\* is as it was, and the ended run does nothing more.
C8_MaintenanceAbort ==
    /\ []((sent.kind = "login" /\ code = 999) => /\ pc = "end"
                                                 /\ status = "SystemExit"
                                                 /\ end_at = "login"
                                                 /\ issued = {"login"})
    /\ [][sent'.kind = "login" => disk' = disk]_vars
    /\ [][EndedRunIsInert]_vars

\* C8 witness: a run ended by the maintenance status on a disk that an
\* earlier run had already filled.
C8_Witness ==
    /\ sent.kind = "login"
    /\ code = 999
    /\ status = "SystemExit"
    /\ dirs # {}

----------------------------------------------------------------------------
(* Properties of the importer *)

Timestamps(rows) == {rows[i].timestamp : i \in 1..Len(rows)}

DistinctTimestamps(rows) ==
    \A i, j \in 1..Len(rows) : rows[i].timestamp = rows[j].timestamp => i = j

\* Every row that was there is still there, at its place, with its values.
RowsKept(before, after) ==
    /\ Len(after) >= Len(before)
    /\ \A i \in 1..Len(before) : after[i] = before[i]

\* C1: a complete run over day files that an earlier complete run has already
\* imported leaves every store with exactly the rows that first run left
\* (same count, same timestamps, same values), and no store ever holds two
\* rows with one timestamp.
C1_ImportIdempotent ==
    /\ (istatus = "exit0" /\ first_result.set) =>
          \A m \in Meters : store[m].rows = first_result.rows[m]
    /\ \A m \in Meters : DistinctTimestamps(store[m].rows)

\* C1 witness: the second complete run over two overlapping day files has
\* ended, the store holding their three distinct timestamps.
C1_Witness ==
    /\ istatus = "exit0"
    /\ first_result.again
    /\ Len(file_list) = 2
    /\ Len(store["m1"].rows) = 3

\* The INSERT about to run meets a row with its timestamp.
Collides ==
    /\ ipc = "insert"
    /\ ri <= Len(data)
    /\ all_bindable(data[ri])
    /\ bound(data[ri]).timestamp \in Timestamps(con)

\* C2: no step removes or changes a stored row, so the first values stored
\* for a timestamp stay; no timestamp is ever stored twice; and an INSERT
\* whose timestamp is already there changes nothing and raises nothing (the
\* run goes on, unless the process is killed at that moment).
C2_InsertOnly ==
    /\ [][\A m \in Meters : RowsKept(store[m].rows, store'[m].rows)]_vars
    /\ [][(ipc = "insert" /\ ipc' = "insert") => RowsKept(con, con')]_vars
    /\ [](\A m \in Meters : DistinctTimestamps(store[m].rows))
    /\ [](ipc = "insert" => DistinctTimestamps(con))
    /\ [][Collides => \/ istatus' = "killed"
                      \/ /\ con' = con
                         /\ store' = store
                         /\ istatus' = "running"
                         /\ ri' = ri + 1]_vars

\* C2 witness: the INSERT just executed carried the timestamp of a row that
\* holds other values; the row is as it was and the run goes on.
C2_Witness ==
    /\ ipc = "insert"
    /\ istatus = "running"
    /\ ri > 1
    /\ \E i \in 1..Len(store[energy_meter].rows) :
         /\ store[energy_meter].rows[i].timestamp = bound(data[ri - 1]).timestamp
         /\ store[energy_meter].rows[i] # bound(data[ri - 1])

\* A day file that lacks one of the six keys, or one of whose sequences has
\* not the length of peakDemandTimes.
Malformed(json_data) ==
    \/ \E k \in 1..6 : Keys[k] \notin DOMAIN json_data
    \/ \E k \in 2..6 : Len(json_data[Keys[k]]) # Len(json_data["peakDemandTimes"])

\* C9: a malformed day file makes the run fail and none of its rows is
\* stored: no run ever gets past the commit of such a file.
C9_MalformedIsFatal ==
    (fi > 1 /\ fi - 1 <= Len(file_list))
        => ~Malformed(dayfiles[energy_meter][file_list[fi - 1]])

\* C10: the durable rows of a store change only by the commit that ends a day
\* file's transaction, and that commit adds a row for every timestamp of the
\* file that had none; no other step, a kill or a failing INSERT included,
\* changes them.
C10_PerFileAtomic ==
    [][\A m \in Meters :
          \/ store'[m].rows = store[m].rows
          \/ /\ m = energy_meter
             /\ ipc = "insert"
             /\ ri > Len(data)
             /\ RowsKept(store[m].rows, store'[m].rows)
             /\ Timestamps(store'[m].rows) =
                  Timestamps(store[m].rows)
                    \cup {bound(data[i]).timestamp : i \in 1..Len(data)}]_vars

\* C10 witness: the process was killed between the INSERTs of a day file
\* whose first timestamp was new; the store holds no row for it.
C10_Witness ==
    /\ istatus = "killed"
    /\ iend_at = "insert"
    /\ ri > 1
    /\ ri <= Len(data)
    /\ bound(data[1]).timestamp \notin Timestamps(store[energy_meter].rows)

\* The rows of a day file as they are handed to INSERT_SQL.
RowsInFile(json_data) ==
    LET parsed == parse_day_file(json_data)
    IN  IF parsed.ok THEN [i \in 1..Len(parsed.val) |-> bound(parsed.val[i])]
        ELSE << >>

RECURSIVE RowsOfFiles(_, _)
\* The rows of the named day files of a meter, files in ascending name order.
RowsOfFiles(m, names) ==
    IF names = {} THEN << >>
    ELSE LET first == CHOOSE n \in names : \A o \in names : n <= o
         IN  RowsInFile(dayfiles[m][first]) \o RowsOfFiles(m, names \ {first})

RECURSIVE Pick(_, _)
\* The entries of seq at the given indexes, in ascending index order.
Pick(seq, indexes) ==
    IF indexes = {} THEN << >>
    ELSE LET first == CHOOSE i \in indexes : \A j \in indexes : i <= j
         IN  <<seq[first]>> \o Pick(seq, indexes \ {first})

\* The rows of seq that are the first with their timestamp.
FirstOccurrences(seq) ==
    Pick(seq, {i \in 1..Len(seq) :
                 \A j \in 1..(i - 1) : seq[j].timestamp # seq[i].timestamp})

\* What one uninterrupted run over the present day files makes of the store
\* those files met: per timestamp the first row, stored rows first.
UninterruptedResult(m) ==
    FirstOccurrences(base.rows[m] \o RowsOfFiles(m, DOMAIN dayfiles[m]))

\* C11: whenever a run over the present day files completes, however many
\* runs over them were killed before (between two files or in the middle of
\* one), every store holds exactly the rows one uninterrupted run would have
\* produced: nothing twice, nothing missing.
C11_CrashRerunEquivalent ==
    istatus = "exit0" =>
        \A m \in Meters : store[m].rows = UninterruptedResult(m)

\* C11 witness: a run was killed between the two day files, after it had
\* committed the first; the next run has completed, three rows are stored.
C11_Witness ==
    /\ istatus = "exit0"
    /\ base.interrupted = "between files"
    /\ ~first_result.again
    /\ base.rows["m1"] = << >>
    /\ Len(file_list) = 2
    /\ Len(store["m1"].rows) = 3

\* The current download call is a second call: the call that returned last
\* in this run was for the same meter directory with the same today (and
\* start_date never changes).
InCall == pc \in {"day", "mean", "store"}
SecondCall == InCall /\ prev.dir = cur_dir /\ prev.today = call_today

\* C12 as stated: in a second call the existence check short-circuits every
\* day, so that no Day or MeanProfileDay request is issued at all.
C12_ShortCircuitsEveryDay ==
    [][SecondCall => sent'.kind \notin DayRequestKinds]_vars

\* C12, amended: in a second call every day that has a file is passed without
\* a request; the only days requested are those for which the first call was
\* served empty meteredValues; and a file is written only where the portal
\* now serves data for such a day, that is, other data than in the first
\* call.  With the same data the second call writes nothing and the directory
\* stays as the first call left it.
C12_SecondCallWritesNothing ==
    [][SecondCall =>
         /\ sent'.kind \in DayRequestKinds => cur_day \in prev.empty_days
         /\ files' # files => /\ cur_day \in prev.empty_days
                              /\ ~metered_missing(rec)]_vars

\* C12 witness: a second call has gone through its list of at least two days:
\* it was served the same empty days as the first call, and every other day
\* has its file.
C12_Witness ==
    /\ SecondCall
    /\ di > Len(days)
    /\ Len(days) >= 2
    /\ empty_days # {}
    /\ empty_days = prev.empty_days
    /\ \E i \in 1..Len(days) : days[i] \in DOMAIN files[cur_dir]
    /\ \A i \in 1..Len(days) :
          days[i] \in DOMAIN files[cur_dir] \/ days[i] \in empty_days

\* C13: once _check_database has returned, the store of the current meter
\* has the consumption_data table and the unique index on timestamp.
C13_EnsureSchema ==
    (istatus = "running" /\ ipc \in {"files", "insert"}) =>
        /\ store[energy_meter].table
        /\ store[energy_meter].index

\* A day file as the fetcher writes it: the six sequences, all of one length,
\* the timestamps ISO strings of distinct instants, the values numbers or null.
WellFormedDay(json_data) ==
    /\ \A k \in 1..6 : Keys[k] \in DOMAIN json_data
    /\ \A k \in 2..6 : Len(json_data[Keys[k]]) = Len(json_data["peakDemandTimes"])
    /\ \A i \in 1..Len(json_data["peakDemandTimes"]) :
          /\ fromisoformat(json_data["peakDemandTimes"][i]).ok
          /\ \A k \in 2..6 : json_data[Keys[k]][i].type \in {"number", "null"}
    /\ \A i, j \in 1..Len(json_data["peakDemandTimes"]) :
          i # j => fromisoformat(json_data["peakDemandTimes"][i]).val
                     # fromisoformat(json_data["peakDemandTimes"][j]).val

\* C14: when the import of a well-formed day file of n entries into a store
\* without rows commits, the store holds exactly n rows, and row i is made of
\* the i-th timestamp and the i-th element of each of the five value
\* sequences, nothing from another index.
C14_RowsArePositional ==
    [][(/\ ipc = "insert" /\ ipc' = "files"
        /\ store[energy_meter].rows = << >>
        /\ WellFormedDay(cur_file)) =>
          LET rows == store'[energy_meter].rows
          IN  /\ Len(rows) = Len(cur_file["peakDemandTimes"])
              /\ \A i \in 1..Len(rows) :
                    /\ rows[i].timestamp.date = cur_file["peakDemandTimes"][i].date
                    /\ rows[i].timestamp.time = cur_file["peakDemandTimes"][i].time
                    /\ rows[i].metered = cur_file["meteredValues"][i]
                    /\ rows[i].estimated = cur_file["estimatedValues"][i]
                    /\ rows[i].metered_peak = cur_file["meteredPeakDemands"][i]
                    /\ rows[i].estimated_peak = cur_file["estimatedPeakDemands"][i]
                    /\ rows[i].mean_profile = cur_file["meanProfile"][i]]_vars

\* C14 witness: the first day file, well-formed with two entries, has been
\* committed into a store that had no rows; the store holds its two rows.
C14_Witness ==
    /\ istatus = "running"
    /\ ipc = "files"
    /\ fi = 2
    /\ WellFormedDay(dayfiles[energy_meter][file_list[1]])
    /\ base.rows[energy_meter] = << >>
    /\ Len(store[energy_meter].rows) = 2
    /\ store[energy_meter].rows[2].metered = Num(12)
    /\ store[energy_meter].rows[2].mean_profile = Num(52)

\* C15: no run of the importer ends with an error at an entry of the
\* metering-point directory that is no day file: such an entry is never
\* opened and parsed.
C15_NonDayEntriesIgnored ==
    (ipc = "end" /\ iend_at = "files" /\ istatus # "killed" /\ fi <= Len(file_list))
        => file_list[fi] \in FileNames

\* C19: whenever no importer is running, also after a run was killed at any
\* point, a store that has the consumption_data table has the unique index
\* on timestamp as well.
C19_SchemaCrashConsistent ==
    istatus # "running" =>
        \A m \in Meters : store[m].table => store[m].index

SessionRequestKinds == {"login", "extend", "info"}

\* C16: the session-extension request is issued only after a successful
\* login, the one topology request only after a successful extension, a day
\* request only after the topology request; and a login, extension or
\* topology response with another status than 200 ends the run with an error
\* in that very step, the disk as it was.
C16_PhaseOrdering ==
    [][/\ sent'.kind = "extend" => (status = "running" /\ issued = {"login"})
       /\ sent'.kind = "info" =>
             (status = "running" /\ issued = {"login", "extend"})
       /\ sent'.kind \in DayRequestKinds =>
             (status = "running" /\ SessionRequestKinds \subseteq issued)
       /\ (sent'.kind \in SessionRequestKinds /\ code' # 200) =>
             /\ pc' = "end"
             /\ status' \in {"HTTPError", "SystemExit"}
             /\ disk' = disk]_vars

\* C17: in every state of the disk, whatever ended the runs so far, every
\* existing day file holds a complete day record with non-empty meteredValues.
C17_FileMeansCompleteDay ==
    \A dir \in MeterDirs : \A day \in DOMAIN files[dir] :
        /\ HasMetered(files[dir][day])
        /\ files[dir][day].meteredValues # << >>
        /\ "meanProfile" \in DOMAIN files[dir][day]

FatalErrors == {"HTTPError", "SystemExit"}

====
